---- MODULE Spec2Model ----
(***************************************************************************)
(* A model of the sx1509-eh driver: the register-access layer              *)
(* (src/src/interface.rs) and the pin type-state machine (src/src/pin.rs,  *)
(* src/src/states.rs).                                                     *)
(*                                                                         *)
(* The device is a register file of bytes behind an I2C bus.  The bus is   *)
(* owned by a spin::Mutex; every register read and every register write    *)
(* takes the mutex with try_lock, performs one bus transaction and drops   *)
(* the guard.  A pin handle is a value whose type records its shape; a     *)
(* transition consumes the handle and returns either the handle of the new *)
(* shape or a ModeChange holding the error and the handle it consumed.     *)
(*                                                                         *)
(* Each live handle is driven by its own execution context.  A method call *)
(* is a sequence of bit-level operations, each a register read followed by *)
(* a register write; the model takes one step per guard acquisition and    *)
(* one per bus transaction, so that contexts interleave exactly where the  *)
(* code lets them.                                                         *)
(*                                                                         *)
(* Modelling assumptions about the external bus primitive: a transaction   *)
(* that succeeds reads or writes the addressed register as plain memory; a *)
(* transaction that fails changes no register.                             *)
(***************************************************************************)
EXTENDS Integers, Sequences, FiniteSets, TLC

(***************************************************************************)
(* Bounds of the model.                                                    *)
(***************************************************************************)

\* The pin indices the device has are 0 .. NumPins - 1 (src/src/lib.rs:62-82).
NumPins == 16

\* Register contents before the first operation of the modelled handles:
\* the bits of the other pins, as earlier use of their handles left them.
InitBytes == {165, 90}

\* The register contents SpecConc starts from.
ConcInitBytes == {165}

\* The I2C addresses Sx1509::new is given.
Addresses == {62, 113}

\* The failure values the external bus primitive can report.
BusErrors == {"nack"}

\* The pairs of pins driven concurrently in SpecConc: two pins of one bank
\* (they share every physical register) and two pins of different banks.
ConcPairs == {{0, 7}, {3, 9}}

\* In SpecConc each handle is put through at most MaxCalls method calls.
MaxCalls == 1

(***************************************************************************)
(* u8 arithmetic (the register bytes and the masks of set_bit/unset_bit).  *)
(***************************************************************************)

Byte == 0 .. 255

RECURSIVE Pow2(_)
Pow2(n) == IF n = 0 THEN 1 ELSE 2 * Pow2(n - 1)

\* 1 << n on a u8.
Shl1(n) == Pow2(n) % 256

BitAt(b, k) == (b \div Pow2(k)) % 2

RECURSIVE FromBits(_, _)
FromBits(f, k) == IF k = 8 THEN 0 ELSE f[k] * Pow2(k) + FromBits(f, k + 1)

\* a | b, a & b and !a on u8.
BitOr(a, b) == FromBits([k \in 0 .. 7 |-> IF BitAt(a, k) = 1 \/ BitAt(b, k) = 1 THEN 1 ELSE 0], 0)
BitAnd(a, b) == FromBits([k \in 0 .. 7 |-> IF BitAt(a, k) = 1 /\ BitAt(b, k) = 1 THEN 1 ELSE 0], 0)
BitNot(a) == 255 - a

(***************************************************************************)
(* Register map (src/src/interface.rs).                                    *)
(***************************************************************************)

BankAgnosticRegister == {"Dir", "Data", "PullUp", "PullDown", "OpenDrain", "DebounceEnable"}

\* The physical registers the bit-level operations address.
Register ==
    {"RegDirA", "RegDataA", "RegPullUpA", "RegPullDownA", "RegOpenDrainA", "RegDebounceEnableA",
     "RegDirB", "RegDataB", "RegPullUpB", "RegPullDownB", "RegOpenDrainB", "RegDebounceEnableB"}

\* As into_register, but the bank-A register is given for every pin.
into_register_bank_A_only(bar, PIN) ==
    CASE bar = "Dir" -> "RegDirA"
      [] bar = "Data" -> "RegDataA"
      [] bar = "PullUp" -> "RegPullUpA"
      [] bar = "PullDown" -> "RegPullDownA"
      [] bar = "OpenDrain" -> "RegOpenDrainA"
      [] bar = "DebounceEnable" -> "RegDebounceEnableA"

\* As into_register, but pin 8 is taken for a pin of bank A.
into_register_pin8_in_A(bar, PIN) ==
    IF PIN <= 8
    THEN CASE bar = "Dir" -> "RegDirA"
           [] bar = "Data" -> "RegDataA"
           [] bar = "PullUp" -> "RegPullUpA"
           [] bar = "PullDown" -> "RegPullDownA"
           [] bar = "OpenDrain" -> "RegOpenDrainA"
           [] bar = "DebounceEnable" -> "RegDebounceEnableA"
    ELSE CASE bar = "Dir" -> "RegDirB"
           [] bar = "Data" -> "RegDataB"
           [] bar = "PullUp" -> "RegPullUpB"
           [] bar = "PullDown" -> "RegPullDownB"
           [] bar = "OpenDrain" -> "RegOpenDrainB"
           [] bar = "DebounceEnable" -> "RegDebounceEnableB"

into_register(bar, PIN) ==
    IF PIN < 8
    THEN CASE bar = "Dir" -> "RegDirA"
           [] bar = "Data" -> "RegDataA"
           [] bar = "PullUp" -> "RegPullUpA"
           [] bar = "PullDown" -> "RegPullDownA"
           [] bar = "OpenDrain" -> "RegOpenDrainA"
           [] bar = "DebounceEnable" -> "RegDebounceEnableA"
    ELSE CASE bar = "Dir" -> "RegDirB"
           [] bar = "Data" -> "RegDataB"
           [] bar = "PullUp" -> "RegPullUpB"
           [] bar = "PullDown" -> "RegPullDownB"
           [] bar = "OpenDrain" -> "RegOpenDrainB"
           [] bar = "DebounceEnable" -> "RegDebounceEnableB"

\* As set_bit_new_data, but the byte written is the mask alone.
set_bit_new_data_mask_only(existing_data, PIN) ==
    IF PIN < 8 THEN Shl1(PIN) ELSE Shl1(PIN - 8)

\* As set_bit_new_data, but the shift is by PIN in bank B too (1 << PIN is
\* 0 on a u8 for PIN >= 8).
set_bit_new_data_no_rebase(existing_data, PIN) == BitOr(existing_data, Shl1(PIN))

\* The byte set_bit writes back, from the byte it read.
set_bit_new_data(existing_data, PIN) ==
    IF PIN < 8
    THEN BitOr(existing_data, Shl1(PIN))
    ELSE BitOr(existing_data, Shl1(PIN - 8))

\* As unset_bit_new_data, without the negation of the mask.
unset_bit_new_data_unnegated(existing_data, PIN) ==
    IF PIN < 8
    THEN BitAnd(existing_data, Shl1(PIN))
    ELSE BitAnd(existing_data, Shl1(PIN - 8))

\* The byte unset_bit writes back, from the byte it read.
unset_bit_new_data(existing_data, PIN) ==
    IF PIN < 8
    THEN BitAnd(existing_data, BitNot(Shl1(PIN)))
    ELSE BitAnd(existing_data, BitNot(Shl1(PIN - 8)))

\* The boolean get_bit returns, from the byte it read.
get_bit_value(data, PIN) ==
    IF PIN < 8
    THEN BitAnd(data, Shl1(PIN)) # 0
    ELSE BitAnd(data, Shl1(PIN - 8)) # 0

\* The bit-level operations: each names the helper it calls and the
\* bank-agnostic register it passes.
set_bit(bar) == [f |-> "set_bit", bar |-> bar]
unset_bit(bar) == [f |-> "unset_bit", bar |-> bar]
get_bit(bar) == [f |-> "get_bit", bar |-> bar]

\* As set_output, but the direction bit is cleared.
set_output_clears == unset_bit("Dir")

set_output == set_bit("Dir")
set_input == unset_bit("Dir")
set_data(value) == IF value THEN set_bit("Data") ELSE unset_bit("Data")
get_data == get_bit("Data")
set_pull_up(value) == IF value THEN set_bit("PullUp") ELSE unset_bit("PullUp")
set_pull_down(value) == IF value THEN set_bit("PullDown") ELSE unset_bit("PullDown")
set_open_drain(value) == IF value THEN set_bit("OpenDrain") ELSE unset_bit("OpenDrain")
set_debounce_enable(value) == IF value THEN set_bit("DebounceEnable") ELSE unset_bit("DebounceEnable")

(***************************************************************************)
(* Errors (src/src/error.rs).                                              *)
(***************************************************************************)

\* Error::Io(e), from map_err(Error::Io), and Error::BusBusy, from
\* ok_or(Error::BusBusy).
Io(e) == <<"Io", e>>
BusBusy == <<"BusBusy">>

(***************************************************************************)
(* Handle shapes (src/src/pin.rs, src/src/states.rs).  The shape is the    *)
(* handle's type: Pin, Output<S> or Input<S, D>.                           *)
(***************************************************************************)

Unconfigured == [kind |-> "Pin", S |-> "-", D |-> "-"]
Output(S) == [kind |-> "Output", S |-> S, D |-> "-"]
Input(S, D) == [kind |-> "Input", S |-> S, D |-> D]

OutputStates == {"PushPull", "OpenDrain"}
InputStates == {"Floating", "PullUp", "PullDown"}
DebounceStates == {"DebounceOff", "DebounceOn"}

Outputs == {Output(S) : S \in OutputStates}
Inputs == {Input(S, D) : S \in InputStates, D \in DebounceStates}
Shapes == {Unconfigured} \cup Outputs \cup Inputs

\* A handle that a transition in flight has consumed (self was moved).
Moved == [kind |-> "moved", S |-> "-", D |-> "-"]

(***************************************************************************)
(* The methods of the handles.  A method is given by the shapes it is      *)
(* implemented for (self), the bit-level operations its body issues in     *)
(* order (each followed by `?`: the first failure ends the body), and the  *)
(* shape of the handle it returns on success (ok).  A transition takes     *)
(* self by value; a capability method borrows it (ok is the identity).     *)
(***************************************************************************)

\* As Pin_into_output, but the open-drain bit is written before the
\* direction bit.
Pin_into_output_open_drain_first ==
    [name |-> "Pin::into_output", kind |-> "transition", self |-> {Unconfigured},
     body |-> <<set_open_drain(FALSE), set_output>>,
     ok |-> [h \in {Unconfigured} |-> Output("PushPull")]]

Pin_into_output ==
    [name |-> "Pin::into_output", kind |-> "transition", self |-> {Unconfigured},
     body |-> <<set_output, set_open_drain(FALSE)>>,
     ok |-> [h \in {Unconfigured} |-> Output("PushPull")]]

Pin_into_input ==
    [name |-> "Pin::into_input", kind |-> "transition", self |-> {Unconfigured},
     body |-> <<set_input, set_pull_up(FALSE), set_pull_down(FALSE), set_debounce_enable(FALSE)>>,
     ok |-> [h \in {Unconfigured} |-> Input("Floating", "DebounceOff")]]

\* As Input_into_output, but the open-drain bit is left as it is.
Input_into_output_dir_only ==
    [name |-> "Input::into_output", kind |-> "transition", self |-> Inputs,
     body |-> <<set_output>>,
     ok |-> [h \in Inputs |-> Output("PushPull")]]

Input_into_output ==
    [name |-> "Input::into_output", kind |-> "transition", self |-> Inputs,
     body |-> <<set_output, set_open_drain(FALSE)>>,
     ok |-> [h \in Inputs |-> Output("PushPull")]]

\* As Output_into_input, but the handle returned is the Output it was given.
Output_into_input_keeps_output ==
    [name |-> "Output::into_input", kind |-> "transition", self |-> Outputs,
     body |-> <<set_input, set_pull_up(FALSE)>>,
     ok |-> [h \in Outputs |-> h]]

Output_into_input ==
    [name |-> "Output::into_input", kind |-> "transition", self |-> Outputs,
     body |-> <<set_input, set_pull_up(FALSE)>>,
     ok |-> [h \in Outputs |-> Input("Floating", "DebounceOff")]]

Floating_pullup ==
    [name |-> "Input<Floating>::pullup", kind |-> "transition",
     self |-> {h \in Inputs : h.S = "Floating"},
     body |-> <<set_pull_up(TRUE)>>,
     ok |-> [h \in {h \in Inputs : h.S = "Floating"} |-> Input("PullUp", h.D)]]

Floating_pulldown ==
    [name |-> "Input<Floating>::pulldown", kind |-> "transition",
     self |-> {h \in Inputs : h.S = "Floating"},
     body |-> <<set_pull_down(TRUE)>>,
     ok |-> [h \in {h \in Inputs : h.S = "Floating"} |-> Input("PullDown", h.D)]]

PullUp_floating ==
    [name |-> "Input<PullUp>::floating", kind |-> "transition",
     self |-> {h \in Inputs : h.S = "PullUp"},
     body |-> <<set_pull_up(FALSE)>>,
     ok |-> [h \in {h \in Inputs : h.S = "PullUp"} |-> Input("Floating", h.D)]]

\* As PullUp_pulldown, but pull-down is set before pull-up is cleared.
PullUp_pulldown_set_first ==
    [name |-> "Input<PullUp>::pulldown", kind |-> "transition",
     self |-> {h \in Inputs : h.S = "PullUp"},
     body |-> <<set_pull_down(TRUE), set_pull_up(FALSE)>>,
     ok |-> [h \in {h \in Inputs : h.S = "PullUp"} |-> Input("PullDown", h.D)]]

PullUp_pulldown ==
    [name |-> "Input<PullUp>::pulldown", kind |-> "transition",
     self |-> {h \in Inputs : h.S = "PullUp"},
     body |-> <<set_pull_up(FALSE), set_pull_down(TRUE)>>,
     ok |-> [h \in {h \in Inputs : h.S = "PullUp"} |-> Input("PullDown", h.D)]]

PullDown_floating ==
    [name |-> "Input<PullDown>::floating", kind |-> "transition",
     self |-> {h \in Inputs : h.S = "PullDown"},
     body |-> <<set_pull_down(FALSE)>>,
     ok |-> [h \in {h \in Inputs : h.S = "PullDown"} |-> Input("Floating", h.D)]]

PullDown_pullup ==
    [name |-> "Input<PullDown>::pullup", kind |-> "transition",
     self |-> {h \in Inputs : h.S = "PullDown"},
     body |-> <<set_pull_down(FALSE), set_pull_up(TRUE)>>,
     ok |-> [h \in {h \in Inputs : h.S = "PullDown"} |-> Input("PullUp", h.D)]]

Input_debounce_on ==
    [name |-> "Input<DebounceOff>::debounce_on", kind |-> "transition",
     self |-> {h \in Inputs : h.D = "DebounceOff"},
     body |-> <<set_debounce_enable(TRUE)>>,
     ok |-> [h \in {h \in Inputs : h.D = "DebounceOff"} |-> Input(h.S, "DebounceOn")]]

Input_debounce_off ==
    [name |-> "Input<DebounceOn>::debounce_off", kind |-> "transition",
     self |-> {h \in Inputs : h.D = "DebounceOn"},
     body |-> <<set_debounce_enable(FALSE)>>,
     ok |-> [h \in {h \in Inputs : h.D = "DebounceOn"} |-> Input(h.S, "DebounceOff")]]

Output_open_drain ==
    [name |-> "Output<PushPull>::open_drain", kind |-> "transition",
     self |-> {Output("PushPull")},
     body |-> <<set_open_drain(TRUE)>>,
     ok |-> [h \in {Output("PushPull")} |-> Output("OpenDrain")]]

Output_push_pull ==
    [name |-> "Output<OpenDrain>::push_pull", kind |-> "transition",
     self |-> {Output("OpenDrain")},
     body |-> <<set_open_drain(FALSE)>>,
     ok |-> [h \in {Output("OpenDrain")} |-> Output("PushPull")]]

\* OutputPin, StatefulOutputPin and InputPin.  A getter returns the bit it
\* read (map |-> "id") or its negation (map |-> "not").
Output_set_low ==
    [name |-> "Output::set_low", kind |-> "set", self |-> Outputs,
     body |-> <<set_data(FALSE)>>, ok |-> [h \in Outputs |-> h]]

Output_set_high ==
    [name |-> "Output::set_high", kind |-> "set", self |-> Outputs,
     body |-> <<set_data(TRUE)>>, ok |-> [h \in Outputs |-> h]]

Output_is_set_high ==
    [name |-> "Output::is_set_high", kind |-> "get", map |-> "id", self |-> Outputs,
     body |-> <<get_data>>, ok |-> [h \in Outputs |-> h]]

\* As Output_is_set_low, without the negation.
Output_is_set_low_unnegated ==
    [name |-> "Output::is_set_low", kind |-> "get", map |-> "id", self |-> Outputs,
     body |-> <<get_data>>, ok |-> [h \in Outputs |-> h]]

Output_is_set_low ==
    [name |-> "Output::is_set_low", kind |-> "get", map |-> "not", self |-> Outputs,
     body |-> <<get_data>>, ok |-> [h \in Outputs |-> h]]

Input_is_high ==
    [name |-> "Input::is_high", kind |-> "get", map |-> "id", self |-> Inputs,
     body |-> <<get_data>>, ok |-> [h \in Inputs |-> h]]

Input_is_low ==
    [name |-> "Input::is_low", kind |-> "get", map |-> "not", self |-> Inputs,
     body |-> <<get_data>>, ok |-> [h \in Inputs |-> h]]

Transitions ==
    {Pin_into_output, Pin_into_input, Input_into_output, Output_into_input,
     Floating_pullup, Floating_pulldown, PullUp_floating, PullUp_pulldown,
     PullDown_floating, PullDown_pullup, Input_debounce_on, Input_debounce_off,
     Output_open_drain, Output_push_pull}

Capabilities ==
    {Output_set_low, Output_set_high, Output_is_set_high, Output_is_set_low,
     Input_is_high, Input_is_low}

Methods == Transitions \cup Capabilities

\* The transitions between Pin, Output and Input: their bodies start with
\* the write of the direction bit.
DirectionChanging == {Pin_into_output, Pin_into_input, Input_into_output, Output_into_input}

\* The methods the type of a handle of shape h offers.
MethodsOf(h) == {m \in Methods : h \in m.self}

Method(name) == CHOOSE m \in Methods : m.name = name

\* The shapes one transition that returns Ok takes a handle of shape h to.
NextShapes(h) == {m.ok[h] : m \in {t \in Transitions : h \in t.self}}

\* The shapes that transitions returning Ok take the handles of S to, in
\* any number of calls.
RECURSIVE ReachableShapes(_)
ReachableShapes(S) ==
    LET T == S \cup UNION {NextShapes(h) : h \in S}
    IN IF T = S THEN S ELSE ReachableShapes(T)

(***************************************************************************)
(* Results.  A transition returns Ok(handle of the new shape) or           *)
(* Err(ModeChange { error, pin: self }); a capability method returns Ok(()) *)
(* or Ok(bool), or Err(error).                                             *)
(***************************************************************************)

None == [tag |-> "None"]
Ok(v) == [tag |-> "Ok", value |-> v]
OkPin(h) == [tag |-> "Ok", pin |-> h]
\* As Err, but the error is dropped and Ok(()) returned.
Err_dropped(error) == [tag |-> "Ok", value |-> <<>>]

Err(error) == [tag |-> "Err", error |-> error]
\* As ModeChange, but the pin is a new Pin::new(interface) in place of self.
ModeChange_fresh_pin(error, pin) == [tag |-> "Err", error |-> error, pin |-> Unconfigured]

ModeChange(error, pin) == [tag |-> "Err", error |-> error, pin |-> pin]

(***************************************************************************)
(* State.                                                                  *)
(***************************************************************************)

VARIABLES
    dev,     \* the construction of the driver: the address given to
             \*   Sx1509::new, the bus writes new has issued (each with
             \*   whether it succeeded) and what new returned
    pins,    \* the pin indices whose handles the modelled contexts drive
    regs,    \* the device: the byte of every register
    guard,   \* the contexts that hold a MutexGuard of Interface.i2c
    handle,  \* handle[p]: the shape of the handle of pin p its owner holds
    pc,      \* pc[p]: the method the context of pin p is in, and where
    ret,     \* ret[p]: what the last method called on pin p returned
    calls,   \* calls[p]: the calls made on pin p that SpecConc counts
    hist     \* hist[p]: what the properties need of the past of pin p:
             \*   stranded: an into_output or into_input returned Err after its
             \*           direction write, and none has returned Ok since
             \*   driven: the level the last set_high/set_low that returned Ok
             \*           drove, since the handle last became an Output
             \*   raced:  a read-modify-write of p has read its register between
             \*           the read and the write of another context's
             \*           read-modify-write of that register, or the reverse
             \*   fault:  why the last method returned Err: try_lock returned
             \*           None, or the failure value of the bus primitive

vars == <<dev, pins, regs, guard, handle, pc, ret, calls, hist>>

\* The payloads of the bus writes Sx1509::new issues, in order: the
\* register and the data byte.  As new_writes, but with the two bytes of the
\* software reset the other way round.
new_writes_reset_reversed ==
    <<[register |-> "RegReset", data |-> 52],
      [register |-> "RegReset", data |-> 18],
      [register |-> "RegClock", data |-> 64]>>

new_writes ==
    <<[register |-> "RegReset", data |-> 18],
      [register |-> "RegReset", data |-> 52],
      [register |-> "RegClock", data |-> 64]>>

\* One i2c.write(address, &[register, data]) of new, and how it ended.
Written(address, w, ok) ==
    [address |-> address, register |-> w.register, data |-> w.data, ok |-> ok]

\* Sx1509::new(i2c, address) has returned Ok(Self { interface }).
Constructed(address) ==
    [address |-> address,
     log |-> [k \in 1 .. Len(new_writes) |-> Written(address, new_writes[k], TRUE)],
     ret |-> Ok(<<"Sx1509", address>>)]

Idle == [m |-> "-", self |-> Moved, i |-> 0, phase |-> "idle", existing_data |-> 0]

\* The registers before the first call.  The bits of the modelled pins are
\* as the device reset of Sx1509::new left them in the pull-up, pull-down,
\* open-drain and debounce-enable registers (0); every other bit is as
\* InitBytes gives it (the other pins, as earlier use left them).
InitRegs(fill, ps) ==
    [r \in Register |->
        IF r \in {"RegDirA", "RegDataA", "RegDirB", "RegDataB"} THEN fill
        ELSE IF r \in {"RegPullDownA", "RegPullDownB"} THEN 0
        ELSE IF r \in {"RegPullUpA", "RegOpenDrainA", "RegDebounceEnableA"}
             THEN FromBits([k \in 0 .. 7 |-> IF k \in ps THEN 0 ELSE BitAt(fill, k)], 0)
        ELSE FromBits([k \in 0 .. 7 |-> IF k + 8 \in ps THEN 0 ELSE BitAt(fill, k)], 0)]

\* The registers after the bit-level operations of `body` have all
\* succeeded on pin p with nothing interleaved, starting from rs.
RECURSIVE RunBody(_, _, _)
RunBody(rs, p, body) ==
    IF body = <<>> THEN rs
    ELSE LET op == Head(body)
             r == into_register(op.bar, p)
             after == CASE op.f = "set_bit" -> [rs EXCEPT ![r] = set_bit_new_data(rs[r], p)]
                        [] op.f = "unset_bit" -> [rs EXCEPT ![r] = unset_bit_new_data(rs[r], p)]
                        [] op.f = "get_bit" -> rs
         IN RunBody(after, p, Tail(body))

\* A sequence of transitions that takes a handle from Unconfigured to h.
PathTo(h) ==
    IF h.kind = "Pin" THEN <<>>
    ELSE IF h.kind = "Output"
    THEN <<Pin_into_output>> \o (IF h.S = "OpenDrain" THEN <<Output_open_drain>> ELSE <<>>)
    ELSE <<Pin_into_input>>
         \o (CASE h.S = "PullUp" -> <<Floating_pullup>>
               [] h.S = "PullDown" -> <<Floating_pulldown>>
               [] OTHER -> <<>>)
         \o (IF h.D = "DebounceOn" THEN <<Input_debounce_on>> ELSE <<>>)

RECURSIVE RunPath(_, _, _)
RunPath(rs, p, path) ==
    IF path = <<>> THEN rs ELSE RunPath(RunBody(rs, p, Head(path).body), p, Tail(path))

\* Sx1509::split hands out every handle as Pin (Unconfigured); `shape`
\* gives the shape each handle has been taken to, by the transitions of
\* PathTo run to success one after the other, before the modelled calls.
InitWith(ps, fill, shape) ==
    /\ dev = Constructed(CHOOSE address \in Addresses : TRUE)
    /\ pins = ps
    /\ regs = LET q == CHOOSE q \in ps : \A r \in ps : q <= r
                  o == CHOOSE o \in ps : \A r \in ps : o >= r
              IN RunPath(RunPath(InitRegs(fill, ps), q, PathTo(shape[q])), o, PathTo(shape[o]))
    /\ guard = {}
    /\ handle = shape
    /\ pc = [p \in ps |-> Idle]
    /\ ret = [p \in ps |-> None]
    /\ calls = [p \in ps |-> 0]
    /\ hist = [p \in ps |-> [stranded |-> FALSE, driven |-> "none", raced |-> FALSE, fault |-> "none"]]

Init ==
    \E p \in 0 .. NumPins - 1, fill \in InitBytes :
        InitWith({p}, fill, [q \in {p} |-> Unconfigured])

\* Two handles: the one of the lower pin in any shape, the other as split
\* handed it out.
InitConc ==
    \E ps \in ConcPairs, fill \in ConcInitBytes, h \in Shapes :
        InitWith(ps, fill, [q \in ps |-> IF \A r \in ps : q <= r THEN h ELSE Unconfigured])

(***************************************************************************)
(* Helpers of the actions.                                                 *)
(***************************************************************************)

\* The bit-level operation the context of pin p is in.
CurOp(p) == Method(pc[p].m).body[pc[p].i]

\* The register that operation addresses.
CurReg(p) == into_register(CurOp(p).bar, p)

\* The context of pin p has read register r for a read-modify-write and has
\* not written it back yet.
InWindow(p, r) == pc[p].phase \in {"write", "writing"} /\ CurReg(p) = r

\* As Fail, but the body goes on to its next operation after the failure.
Fail_goes_on(p, error, fault) ==
    LET m == Method(pc[p].m) IN
    /\ hist' = [hist EXCEPT ![p].fault = fault]
    /\ ret' = [ret EXCEPT ![p] = IF m.kind = "transition"
                                 THEN ModeChange(error, pc[p].self)
                                 ELSE Err(error)]
    /\ UNCHANGED handle
    /\ pc' = IF pc[p].i < Len(m.body)
             THEN [pc EXCEPT ![p].i = @ + 1, ![p].phase = "read", ![p].existing_data = 0]
             ELSE [pc EXCEPT ![p].phase = "done", ![p].existing_data = 0]

\* The method of pin p returns an error: a transition gives the handle it
\* consumed back inside the ModeChange.
Fail(p, error, fault) ==
    LET m == Method(pc[p].m) IN
    /\ hist' = [hist EXCEPT ![p].stranded = @ \/ (m \in DirectionChanging /\ pc[p].i > 1),
                             ![p].fault = fault]
    /\ ret' = [ret EXCEPT ![p] = IF m.kind = "transition"
                                 THEN ModeChange(error, pc[p].self)
                                 ELSE Err(error)]
    /\ handle' = [handle EXCEPT ![p] = IF m.kind = "transition" THEN ret'[p].pin ELSE @]
    /\ pc' = [pc EXCEPT ![p].phase = "done", ![p].existing_data = 0]

\* The value a capability method returns from the bit its get_bit read.
Returned(m, bit) ==
    IF m.kind = "get" THEN <<IF m.map = "not" THEN ~bit ELSE bit>> ELSE <<>>

\* A bit-level operation of pin p returned Ok (with `bit`, for get_bit):
\* the body goes on to its next operation, or the method returns Ok.
StepDone(p, bit) ==
    LET m == Method(pc[p].m) IN
    IF pc[p].i < Len(m.body)
    THEN /\ pc' = [pc EXCEPT ![p].i = @ + 1, ![p].phase = "read", ![p].existing_data = 0]
         /\ UNCHANGED <<handle, ret, hist>>
    ELSE /\ hist' = [hist EXCEPT ![p].driven = CASE m.name = "Output::set_high" -> "high"
                                                  [] m.name = "Output::set_low" -> "low"
                                                  [] m \in DirectionChanging -> "none"
                                                  [] OTHER -> @,
                                  ![p].stranded = @ /\ m \notin DirectionChanging]
         /\ ret' = [ret EXCEPT ![p] = IF m.kind = "transition"
                                      THEN OkPin(m.ok[pc[p].self])
                                      ELSE Ok(Returned(m, bit))]
         /\ handle' = [handle EXCEPT ![p] = IF m.kind = "transition" THEN ret'[p].pin ELSE @]
         /\ pc' = [pc EXCEPT ![p].phase = "done", ![p].existing_data = 0]

(***************************************************************************)
(* Actions.                                                                *)
(***************************************************************************)

\* The owner of the handle of pin p calls method m on it.
Begin(p, m) ==
    /\ pc[p].phase = "idle"
    /\ handle[p] \in m.self
    /\ pc' = [pc EXCEPT ![p] = [m |-> m.name, self |-> handle[p], i |-> 1,
                                phase |-> "read", existing_data |-> 0]]
    /\ handle' = [handle EXCEPT ![p] = IF m.kind = "transition" THEN Moved ELSE @]
    /\ UNCHANGED <<dev, pins, regs, guard, ret, hist>>

Call(p, m) ==
    /\ Begin(p, m)
    /\ UNCHANGED calls

CallConc(p, m) ==
    /\ calls[p] < MaxCalls
    /\ Begin(p, m)
    /\ calls' = [calls EXCEPT ![p] = @ + 1]

\* As TryLock, but the guard is taken whether or not it is free.
TryLock_unchecked(p) ==
    /\ pc[p].phase \in {"read", "write"}
    /\ guard' = guard \cup {p}
    /\ pc' = [pc EXCEPT ![p].phase = IF @ = "read" THEN "reading" ELSE "writing"]
    /\ UNCHANGED <<dev, pins, regs, handle, ret, calls, hist>>

\* Interface::read / Interface::write: try_lock succeeds.
TryLock(p) ==
    /\ pc[p].phase \in {"read", "write"}
    /\ guard = {}
    /\ guard' = {p}
    /\ pc' = [pc EXCEPT ![p].phase = IF @ = "read" THEN "reading" ELSE "writing"]
    /\ UNCHANGED <<dev, pins, regs, handle, ret, calls, hist>>

\* Interface::read / Interface::write: try_lock returns None, and
\* ok_or(Error::BusBusy)? returns without a transaction.
LockBusy(p) ==
    /\ pc[p].phase \in {"read", "write"}
    /\ guard # {}
    /\ Fail(p, BusBusy, "try_lock")
    /\ UNCHANGED <<dev, pins, regs, guard, calls>>

\* As ReadOk, but the guard taken for the read is kept for the write.
ReadOk_keeps_guard(p) ==
    /\ pc[p].phase = "reading"
    /\ guard' = IF CurOp(p).f = "get_bit" THEN guard \ {p} ELSE guard
    /\ IF CurOp(p).f = "get_bit"
       THEN StepDone(p, get_bit_value(regs[CurReg(p)], p))
       ELSE /\ pc' = [pc EXCEPT ![p].phase = "write", ![p].existing_data = regs[CurReg(p)]]
            /\ UNCHANGED <<handle, ret, hist>>
    /\ UNCHANGED <<dev, pins, regs, calls>>

\* Interface::read: write_read succeeds; the guard is dropped.
ReadOk(p) ==
    /\ pc[p].phase = "reading"
    /\ guard' = guard \ {p}
    /\ IF CurOp(p).f = "get_bit"
       THEN StepDone(p, get_bit_value(regs[CurReg(p)], p))
       ELSE /\ pc' = [pc EXCEPT ![p].phase = "write", ![p].existing_data = regs[CurReg(p)]]
            /\ hist' = [q \in pins |->
                           IF InWindow(q, CurReg(p)) \/ (q = p /\ \E o \in pins : InWindow(o, CurReg(p)))
                           THEN [hist[q] EXCEPT !.raced = TRUE]
                           ELSE hist[q]]
            /\ UNCHANGED <<handle, ret>>
    /\ UNCHANGED <<dev, pins, regs, calls>>

\* Interface::write: write succeeds; the guard is dropped.
WriteOk(p) ==
    /\ pc[p].phase = "writing"
    /\ guard' = guard \ {p}
    /\ regs' = [regs EXCEPT ![CurReg(p)] =
                   IF CurOp(p).f = "set_bit"
                   THEN set_bit_new_data(pc[p].existing_data, p)
                   ELSE unset_bit_new_data(pc[p].existing_data, p)]
    /\ StepDone(p, FALSE)
    /\ UNCHANGED <<dev, pins, calls>>

\* As BusError, but the guard outlives the failed transaction.
BusError_keeps_guard(p, e) ==
    /\ pc[p].phase \in {"reading", "writing"}
    /\ Fail(p, Io(e), e)
    /\ UNCHANGED <<dev, pins, regs, guard, calls>>

\* Interface::read / Interface::write: the bus transaction fails with e;
\* the guard is dropped and map_err(Error::Io)? returns.
BusError(p, e) ==
    /\ pc[p].phase \in {"reading", "writing"}
    /\ guard' = guard \ {p}
    /\ Fail(p, Io(e), e)
    /\ UNCHANGED <<dev, pins, regs, calls>>

\* The caller lets the returned value go out of scope.
Drop(p) ==
    /\ pc[p].phase = "done"
    /\ pc' = [pc EXCEPT ![p] = Idle]
    /\ ret' = [ret EXCEPT ![p] = None]
    /\ hist' = [hist EXCEPT ![p].fault = "none"]
    /\ UNCHANGED <<dev, pins, regs, guard, handle, calls>>

\* Sx1509::new: the next i2c.write of the sequence succeeds; after the last
\* one new returns Ok(Self { .. }).
NewWrite ==
    /\ dev.ret = None
    /\ LET k == Len(dev.log) + 1
           log == Append(dev.log, Written(dev.address, new_writes[k], TRUE))
       IN dev' = [dev EXCEPT !.log = log,
                             !.ret = IF k = Len(new_writes)
                                     THEN Ok(<<"Sx1509", dev.address>>)
                                     ELSE None]
    /\ UNCHANGED <<pins, regs, guard, handle, pc, ret, calls, hist>>

\* Sx1509::new: the next i2c.write of the sequence fails with e, and `?`
\* returns Err(e).
NewError(e) ==
    /\ dev.ret = None
    /\ LET k == Len(dev.log) + 1
       IN dev' = [dev EXCEPT !.log = Append(@, Written(dev.address, new_writes[k], FALSE)),
                             !.ret = Err(e)]
    /\ UNCHANGED <<pins, regs, guard, handle, pc, ret, calls, hist>>

\* Sx1509::split on the driver new returned: the handle of pin p, a Pin, goes
\* to the context that drives it.  The configuration bits of pin p are as
\* the reset left them.
split(p) ==
    /\ dev.ret.tag = "Ok"
    /\ pins = {}
    /\ pins' = {p}
    /\ regs' = InitRegs(regs["RegDataA"], {p})
    /\ handle' = [q \in {p} |-> Unconfigured]
    /\ pc' = [q \in {p} |-> Idle]
    /\ ret' = [q \in {p} |-> None]
    /\ calls' = [q \in {p} |-> 0]
    /\ hist' = [q \in {p} |-> [stranded |-> FALSE, driven |-> "none", raced |-> FALSE, fault |-> "none"]]
    /\ UNCHANGED <<dev, guard>>

\* One handle, one context: nothing interleaves.
Next ==
    \/ \E p \in pins, m \in Methods : Call(p, m)
    \/ \E p \in pins : TryLock(p)
    \/ \E p \in pins : ReadOk(p)
    \/ \E p \in pins : WriteOk(p)
    \/ \E p \in pins, e \in BusErrors : BusError(p, e)
    \/ \E p \in pins : Drop(p)

Spec == Init /\ [][Next]_vars

\* Two handles, each driven by its own context, interleaved at every step.
NextConc ==
    \/ \E p \in pins, m \in Methods : CallConc(p, m)
    \/ \E p \in pins : TryLock(p)
    \/ \E p \in pins : LockBusy(p)
    \/ \E p \in pins : ReadOk(p)
    \/ \E p \in pins : WriteOk(p)
    \/ \E p \in pins, e \in BusErrors : BusError(p, e)
    \/ \E p \in pins : Drop(p)

SpecConc == InitConc /\ [][NextConc]_vars

\* One handle, one context, and a bus on which no transaction fails: every
\* method returns Ok.
NextOk ==
    \/ \E p \in pins, m \in Methods : Call(p, m)
    \/ \E p \in pins : TryLock(p)
    \/ \E p \in pins : ReadOk(p)
    \/ \E p \in pins : WriteOk(p)
    \/ \E p \in pins : Drop(p)

SpecOk == Init /\ [][NextOk]_vars

\* The driver from its construction: Sx1509::new on a bus that can fail,
\* split, and one handle driven by one context.
InitNew ==
    \E address \in Addresses, fill \in InitBytes :
        /\ dev = [address |-> address, log |-> <<>>, ret |-> None]
        /\ pins = {}
        /\ regs = InitRegs(fill, {})
        /\ guard = {}
        /\ handle = <<>>
        /\ pc = <<>>
        /\ ret = <<>>
        /\ calls = <<>>
        /\ hist = <<>>

NextNew ==
    \/ NewWrite
    \/ \E e \in BusErrors : NewError(e)
    \/ \E p \in 0 .. NumPins - 1 : split(p)
    \/ \E p \in pins, m \in Methods : Call(p, m)
    \/ \E p \in pins : TryLock(p)
    \/ \E p \in pins : ReadOk(p)
    \/ \E p \in pins : WriteOk(p)
    \/ \E p \in pins, e \in BusErrors : BusError(p, e)
    \/ \E p \in pins : Drop(p)

SpecNew == InitNew /\ [][NextNew]_vars

(***************************************************************************)
(* What the properties read of a state.                                    *)
(***************************************************************************)

\* The bank of pin p and its bit position in the registers of the bank.
BankOf(p) == IF p < 8 THEN "A" ELSE "B"
BitPos(p) == p % 8

\* The physical register of pin p's bank for a logical register.
BankReg(bar, p) ==
    CASE BankOf(p) = "A" ->
           (CASE bar = "Dir" -> "RegDirA" [] bar = "Data" -> "RegDataA"
              [] bar = "PullUp" -> "RegPullUpA" [] bar = "PullDown" -> "RegPullDownA"
              [] bar = "OpenDrain" -> "RegOpenDrainA"
              [] bar = "DebounceEnable" -> "RegDebounceEnableA")
      [] BankOf(p) = "B" ->
           (CASE bar = "Dir" -> "RegDirB" [] bar = "Data" -> "RegDataB"
              [] bar = "PullUp" -> "RegPullUpB" [] bar = "PullDown" -> "RegPullDownB"
              [] bar = "OpenDrain" -> "RegOpenDrainB"
              [] bar = "DebounceEnable" -> "RegDebounceEnableB")

\* Whether pin p's bit of a logical register is 1 on the device.
PinBit(bar, p) == BitAt(regs[BankReg(bar, p)], BitPos(p)) = 1

\* The last method called on pin p has returned, and what it was.
Returned_(p) == pc[p].phase = "done"
ReturnedOk(p) == pc[p].phase = "done" /\ ret[p].tag = "Ok"
ReturnedErr(p) == pc[p].phase = "done" /\ ret[p].tag = "Err"
LastMethod(p) == Method(pc[p].m)

(***************************************************************************)
(* C1: when a bus operation of a transition fails (the bus transaction     *)
(* fails, or the guard is taken), the transition returns a ModeChange      *)
(* whose error is that failure (Io of the bus primitive's value, or        *)
(* BusBusy) and whose pin is the handle the call consumed, of the shape it *)
(* had at the call; the caller holds that handle again and its type offers *)
(* a transition.  Checked under SpecConc, where both kinds of failure      *)
(* occur at every operation of every transition from every shape.          *)
(***************************************************************************)
C1_FailedTransitionReturnsHandle ==
    \A p \in pins :
        (ReturnedErr(p) /\ LastMethod(p).kind = "transition") =>
            /\ ret[p].error = (IF hist[p].fault = "try_lock" THEN <<"BusBusy">>
                               ELSE <<"Io", hist[p].fault>>)
            /\ hist[p].fault \in {"try_lock"} \cup BusErrors
            /\ ret[p].pin = pc[p].self
            /\ ret[p].pin \in LastMethod(p).self
            /\ handle[p] = ret[p].pin
            /\ \E m \in Transitions : handle[p] \in m.self

\* A two-write transition from a configured shape that failed at its second
\* write-back because the other context held the guard.
C1_Witness ==
    \E p \in pins :
        /\ ReturnedErr(p)
        /\ pc[p].m = "Input<PullUp>::pulldown"
        /\ pc[p].i = 2
        /\ ret[p].error = <<"BusBusy">>
        /\ handle[p] = Input("PullUp", "DebounceOn")

(***************************************************************************)
(* C2: after every transition to Input(Floating, DebounceOff) that         *)
(* returned Ok, from Pin or from Output, pin p's direction bit reads input *)
(* (0) and its pull-up, pull-down and debounce-enable bits read 0.         *)
(***************************************************************************)
C2_IntoInputClearsInputBits ==
    \A p \in pins :
        (/\ ReturnedOk(p)
         /\ LastMethod(p).kind = "transition"
         /\ pc[p].self.kind \in {"Pin", "Output"}
         /\ ret[p].pin = Input("Floating", "DebounceOff")) =>
            /\ ~PinBit("Dir", p)
            /\ ~PinBit("PullUp", p)
            /\ ~PinBit("PullDown", p)
            /\ ~PinBit("DebounceEnable", p)

C4_PullsMutuallyExclusive ==
    \A p \in pins : ~(PinBit("PullUp", p) /\ PinBit("PullDown", p))

\* The registers of pin p say what the shape h says.
Agrees(p, h) ==
    /\ PinBit("Dir", p) <=> h.kind = "Output"
    /\ h.kind = "Output" => (PinBit("OpenDrain", p) <=> h.S = "OpenDrain")
    /\ h.kind = "Input" =>
          /\ PinBit("PullUp", p) <=> h.S = "PullUp"
          /\ PinBit("PullDown", p) <=> h.S = "PullDown"
          /\ PinBit("DebounceEnable", p) <=> h.D = "DebounceOn"

(***************************************************************************)
(* C5: in every state reached by calls that all returned Ok, with nothing  *)
(* interleaved (SpecOk), the registers of a pin agree with the shape of    *)
(* its configured handle.                                                  *)
(***************************************************************************)
C5_RegistersAgreeWithShape ==
    \A p \in pins : handle[p] \in Outputs \cup Inputs => Agrees(p, handle[p])

C7_BusyFailsAtOnce ==
    [][\A p \in pins :
          (/\ pc[p].phase \in {"read", "write"}
           /\ guard # {}
           /\ pc'[p] # pc[p]) =>
              /\ pc'[p].phase = "done"
              /\ ret'[p].tag = "Err"
              /\ ret'[p].error = <<"BusBusy">>
              /\ regs' = regs
              /\ guard' = guard]_vars

\* A set_high met the guard held by the other context before its first
\* transaction and returned BusBusy, the other's transaction still under way.
C7_Witness ==
    \E p \in pins, q \in pins :
        /\ p # q
        /\ q \in guard
        /\ pc[q].phase = "writing"
        /\ ReturnedErr(p)
        /\ pc[p].m = "Output::set_high"
        /\ ret[p].error = <<"BusBusy">>

\* Pin p's bit of the registers the body of its last method wrote is not
\* what the body wrote to it.
LostUpdate(p) ==
    /\ ReturnedOk(p)
    /\ \E k \in 1 .. Len(LastMethod(p).body) :
          LET op == LastMethod(p).body[k] IN
          \/ op.f = "set_bit" /\ ~PinBit(op.bar, p)
          \/ op.f = "unset_bit" /\ PinBit(op.bar, p)

(***************************************************************************)
(* C8: a lost update is reachable, and only by interleaving: when a method *)
(* has returned Ok and the bit it wrote is not in the register, one of its *)
(* read-modify-writes overlapped another context's on the same register    *)
(* (one's read fell between the other's read and write).                   *)
(***************************************************************************)
C8_LostUpdateOnlyByInterleaving ==
    \A p \in pins : LostUpdate(p) => hist[p].raced

\* Two pins of bank A: both methods returned Ok, each wrote RegPullUpA, and
\* the pull-up bit that pullup set is 0.
C8_Witness ==
    \E p \in pins, q \in pins :
        /\ p # q
        /\ BankOf(p) = BankOf(q)
        /\ ReturnedOk(p)
        /\ ReturnedOk(q)
        /\ pc[p].m = "Input<Floating>::pullup"
        /\ pc[q].m = "Pin::into_input"
        /\ ~PinBit("PullUp", p)

(***************************************************************************)
(* C9: at most one bus transaction is under way at any time, and it is the *)
(* guard holder's.                                                         *)
(***************************************************************************)
C9_OneTransactionAtATime ==
    /\ Cardinality({p \in pins : pc[p].phase \in {"reading", "writing"}}) <= 1
    /\ guard = {p \in pins : pc[p].phase \in {"reading", "writing"}}

\* One context is in a register write while the other, between the read and
\* the write of its own read-modify-write, is about to try the guard.
C9_Witness ==
    \E p \in pins, q \in pins :
        /\ p # q
        /\ pc[p].phase = "writing"
        /\ pc[q].phase = "write"

(***************************************************************************)
(* C10: on an Output, a read-back that returns Ok after a set_high or      *)
(* set_low that returned Ok gives the level set: is_set_high returns true  *)
(* after set_high and false after set_low, is_set_low the negation         *)
(* (nothing else writes the Data register: Spec).                          *)
(***************************************************************************)
C10_ReadBackReturnsLevelSet ==
    \A p \in pins :
        (/\ ReturnedOk(p)
         /\ pc[p].m \in {"Output::is_set_high", "Output::is_set_low"}
         /\ hist[p].driven # "none") =>
            ret[p].value = <<IF pc[p].m = "Output::is_set_high"
                             THEN hist[p].driven = "high"
                             ELSE hist[p].driven = "low">>

\* is_set_low returned true on a pin of bank B after set_low.
C10_Witness ==
    \E p \in pins :
        /\ p >= 8
        /\ ReturnedOk(p)
        /\ pc[p].m = "Output::is_set_low"
        /\ hist[p].driven = "low"
        /\ ret[p].value = <<TRUE>>

(***************************************************************************)
(* C11: a set_high (set_low) of pin p that returns Ok writes one register, *)
(* the Data register of p's bank, in the step it returns; the byte written *)
(* has bit p mod 8 set (cleared) and its other seven bits as the register  *)
(* had them before the call.  No other step of the call, and no step of a  *)
(* call that fails, writes a register (nothing is interleaved: Spec).      *)
(***************************************************************************)
C11_SetLevelWritesOnlyItsDataBit ==
    [][\A p \in pins :
          pc[p].m \in {"Output::set_high", "Output::set_low"} =>
              IF pc[p].phase # "done" /\ pc'[p].phase = "done" /\ ret'[p].tag = "Ok"
              THEN /\ \A r \in Register \ {BankReg("Data", p)} : regs'[r] = regs[r]
                   /\ BitAt(regs'[BankReg("Data", p)], BitPos(p)) =
                          (IF pc[p].m = "Output::set_high" THEN 1 ELSE 0)
                   /\ \A k \in (0 .. 7) \ {BitPos(p)} :
                          BitAt(regs'[BankReg("Data", p)], k) = BitAt(regs[BankReg("Data", p)], k)
              ELSE regs' = regs]_vars

\* Pin 9 was made an Output and set high: RegDataB, 1010_0101 before, has
\* bit 1 set and is 1010_0111.
C11_Witness ==
    /\ 9 \in pins
    /\ ReturnedOk(9)
    /\ pc[9].m = "Output::set_high"
    /\ regs["RegDataB"] = 167

(***************************************************************************)
(* C12: whatever the pin and the logical register, the register a          *)
(* bit-level operation reads and writes is the bank-A register when the    *)
(* pin index is below 8 and the bank-B register otherwise; the byte         *)
(* set_bit (unset_bit) writes back differs from the byte read at most in   *)
(* bit (index mod 8), which is 1 (0); the bit get_bit tests is bit         *)
(* (index mod 8) of that register.                                         *)
(***************************************************************************)
C12_BankAndBitOfPin ==
    \A p \in pins :
        /\ pc[p].phase \in {"read", "reading", "write", "writing"} =>
              /\ CurReg(p) = BankReg(CurOp(p).bar, p)
              /\ CurReg(p) \in {"RegDirA", "RegDataA", "RegPullUpA", "RegPullDownA",
                                "RegOpenDrainA", "RegDebounceEnableA"} <=> p < 8
        /\ pc[p].phase \in {"write", "writing"} =>
              LET new_data == IF CurOp(p).f = "set_bit"
                              THEN set_bit_new_data(pc[p].existing_data, p)
                              ELSE unset_bit_new_data(pc[p].existing_data, p)
              IN /\ BitAt(new_data, p % 8) = (IF CurOp(p).f = "set_bit" THEN 1 ELSE 0)
                 /\ \A k \in (0 .. 7) \ {p % 8} :
                        BitAt(new_data, k) = BitAt(pc[p].existing_data, k)
        /\ (ReturnedOk(p) /\ LastMethod(p).kind = "get") =>
              LET bit == BitAt(regs[BankReg("Data", p)], p % 8) = 1
              IN ret[p].value = <<IF LastMethod(p).map = "not" THEN ~bit ELSE bit>>

\* Pin 8, the first of bank B, is about to write RegPullDownB with bit 0 set.
C12_Witness ==
    /\ 8 \in pins
    /\ pc[8].phase = "writing"
    /\ CurOp(8) = set_bit("PullDown")
    /\ CurReg(8) = "RegPullDownB"
    /\ set_bit_new_data(pc[8].existing_data, 8) = pc[8].existing_data + 1

(***************************************************************************)
(* C13: Sx1509::new issues, to the address it was given, the writes        *)
(* RegReset 0x12, RegReset 0x34, RegClock 0b0100_0000 in this order and no *)
(* other; it returns Ok exactly when it has issued all three and all three *)
(* succeeded; a write that failed is the last one issued, new returns Err, *)
(* and there is no driver to split: no pin handle ever exists.             *)
(***************************************************************************)
C13_NewIssuesThreeWritesInOrder ==
    LET n == Len(dev.log) IN
    /\ n <= 3
    /\ \A k \in 1 .. n :
          /\ dev.log[k].address = dev.address
          /\ <<dev.log[k].register, dev.log[k].data>> =
                 (CASE k = 1 -> <<"RegReset", 18>>
                    [] k = 2 -> <<"RegReset", 52>>
                    [] k = 3 -> <<"RegClock", 64>>)
    /\ \A k \in 1 .. n - 1 : dev.log[k].ok
    /\ dev.ret.tag = "Ok" <=> (n = 3 /\ \A k \in 1 .. n : dev.log[k].ok)
    /\ dev.ret.tag = "Err" <=> (n >= 1 /\ ~dev.log[n].ok)
    /\ pins # {} => dev.ret.tag = "Ok"

\* The write to RegClock failed after the two writes to RegReset: new
\* returned Err.
C13_Witness ==
    /\ Len(dev.log) = 3
    /\ dev.log[1].ok /\ dev.log[2].ok /\ ~dev.log[3].ok
    /\ dev.ret.tag = "Err"
    /\ dev.address = 62
    /\ pins = {}

(***************************************************************************)
(* C14: no shape is terminal.  Whatever shape a handle has, its type       *)
(* offers a transition, and transitions that return Ok can take it to      *)
(* every configured shape (both Outputs and all six Inputs).               *)
(***************************************************************************)
C14_NoTerminalShape ==
    \A p \in pins :
        handle[p] \in Shapes =>
            /\ \E m \in Transitions : handle[p] \in m.self
            /\ Outputs \cup Inputs \subseteq ReachableShapes(NextShapes(handle[p]))

\* An Output(OpenDrain) has been turned into an Input, and the type of the
\* handle offers four transitions.
C14_Witness ==
    \E p \in pins :
        /\ ReturnedOk(p)
        /\ pc[p].m = "Output::into_input"
        /\ pc[p].self = Output("OpenDrain")
        /\ handle[p] = Input("Floating", "DebounceOff")
        /\ Cardinality({m \in Transitions : handle[p] \in m.self}) = 4

(***************************************************************************)
(* C15: a method returns Ok only when none of its guard acquisitions and   *)
(* none of its bus transactions failed, and then it has run every          *)
(* operation of its body; when try_lock returned None it returns BusBusy,  *)
(* and when a bus transaction failed it returns Io of the failure value    *)
(* the bus primitive gave.                                                 *)
(***************************************************************************)
C15_FailuresAreReturned ==
    \A p \in pins :
        Returned_(p) =>
            /\ ret[p].tag \in {"Ok", "Err"}
            /\ ret[p].tag = "Ok" <=> hist[p].fault = "none"
            /\ ret[p].tag = "Ok" => pc[p].i = Len(LastMethod(p).body)
            /\ hist[p].fault = "try_lock" => ret[p].error = <<"BusBusy">>
            /\ hist[p].fault \in BusErrors => ret[p].error = <<"Io", hist[p].fault>>

\* The one transaction of an is_high failed: is_high returned Io(nack).
C15_Witness ==
    \E p \in pins :
        /\ ReturnedErr(p)
        /\ pc[p].m = "Input::is_high"
        /\ hist[p].fault = "nack"
        /\ ret[p] = [tag |-> "Err", error |-> <<"Io", "nack">>]

(***************************************************************************)
(* C16: the bit-writes of a transition between Pin, Output and Input       *)
(* depend on the shape it returns alone: one that returned                 *)
(* Input(Floating, DebounceOff) has issued direction = input,              *)
(* pull-up = false, pull-down = false, debounce-enable = false in this     *)
(* order, one that returned Output(PushPull) direction = output then       *)
(* open-drain = false, whatever the handle it was called on.               *)
(***************************************************************************)
C16_WritesDependOnTargetOnly ==
    \A p \in pins :
        (ReturnedOk(p) /\ LastMethod(p) \in DirectionChanging) =>
            /\ pc[p].i = Len(LastMethod(p).body)
            /\ ret[p].pin = Input("Floating", "DebounceOff") =>
                  LastMethod(p).body =
                      <<unset_bit("Dir"), unset_bit("PullUp"), unset_bit("PullDown"),
                        unset_bit("DebounceEnable")>>
            /\ ret[p].pin = Output("PushPull") =>
                  LastMethod(p).body = <<set_bit("Dir"), unset_bit("OpenDrain")>>

(***************************************************************************)
(* C17: the step in which an operation of a method fails (a guard          *)
(* acquisition or a bus transaction, in a read or in a write) is the step  *)
(* in which the method returns: the failed operation stays the last one    *)
(* started, no register is written, the guard is not held, and the context *)
(* issues nothing more for that call.  A failed read is thus never         *)
(* followed by its write, and the operations after the failed one are      *)
(* skipped.                                                                *)
(***************************************************************************)
C17_FailureEndsTheOperation ==
    [][\A p \in pins :
          /\ (pc[p].phase \in {"read", "reading", "write", "writing"} /\ ret'[p].tag = "Err") =>
                /\ pc'[p].phase = "done"
                /\ pc'[p].m = pc[p].m
                /\ pc'[p].i = pc[p].i
                /\ regs' = regs
                /\ p \notin guard'
          /\ ReturnedErr(p) =>
                /\ pc'[p] \in {pc[p], Idle}
                /\ p \notin guard'
                /\ regs' = regs \/ \E q \in pins \ {p} : pc[q].phase = "writing"]_vars

\* The first operation of an Input<PullUp>::pulldown failed on the bus: the
\* pull-up bit is still 1 and the pull-down bit, which the second operation
\* would have set, is 0.
C17_Witness ==
    \E p \in pins :
        /\ ReturnedErr(p)
        /\ pc[p].m = "Input<PullUp>::pulldown"
        /\ pc[p].i = 1
        /\ ret[p].error = <<"Io", "nack">>
        /\ PinBit("PullUp", p)
        /\ ~PinBit("PullDown", p)

(***************************************************************************)
(* C18: Input<PullUp>::pulldown issues two bit-writes, the clearing of the *)
(* pull-up bit and then the setting of the pull-down bit, and              *)
(* Input<PullDown>::pullup the clearing of pull-down and then the setting  *)
(* of pull-up: while the second is under way, and when the method has      *)
(* returned Ok, the opposite bit reads 0; the handle returned has the new  *)
(* pull and the debounce substate of the handle given.                     *)
(***************************************************************************)
C18_PullSwapClearsBeforeSetting ==
    \A p \in pins :
        pc[p].m \in {"Input<PullUp>::pulldown", "Input<PullDown>::pullup"} =>
            LET down == pc[p].m = "Input<PullUp>::pulldown"
                cleared == IF down THEN "PullUp" ELSE "PullDown"
                set == IF down THEN "PullDown" ELSE "PullUp"
            IN /\ pc[p].i \in {1, 2}
               /\ pc[p].self.S = cleared
               /\ pc[p].phase \in {"read", "reading", "write", "writing"} =>
                     CurOp(p) = (IF pc[p].i = 1 THEN unset_bit(cleared) ELSE set_bit(set))
               /\ pc[p].i = 2 => ~PinBit(cleared, p)
               /\ ReturnedOk(p) =>
                     /\ pc[p].i = 2
                     /\ PinBit(set, p)
                     /\ ret[p].pin = Input(set, pc[p].self.D)

\* An Input(PullUp, DebounceOn) has become an Input(PullDown, DebounceOn).
C18_Witness ==
    \E p \in pins :
        /\ ReturnedOk(p)
        /\ pc[p].m = "Input<PullUp>::pulldown"
        /\ pc[p].self = Input("PullUp", "DebounceOn")
        /\ handle[p] = Input("PullDown", "DebounceOn")
        /\ PinBit("PullDown", p)
        /\ ~PinBit("PullUp", p)
        /\ PinBit("DebounceEnable", p)

(***************************************************************************)
(* C19: a set_bit or unset_bit that succeeds is two bus transactions: it   *)
(* takes the free guard, reads its register and drops the guard; with the  *)
(* guard not held it computes the new byte; it takes the free guard again, *)
(* writes the same register and drops the guard, and with that the         *)
(* operation is over.  Between the read and the write the context does not *)
(* hold the guard, so that another context can take it.                    *)
(***************************************************************************)
C19_SetterIsReadThenWrite ==
    [][\A p \in pins :
          (/\ pc[p].phase \in {"read", "reading", "write", "writing"}
           /\ CurOp(p).f \in {"set_bit", "unset_bit"}) =>
              /\ pc[p].phase \in {"read", "write"} => p \notin guard
              /\ (pc'[p] # pc[p] /\ ret'[p].tag # "Err") =>
                    CASE pc[p].phase = "read" ->
                           /\ guard = {} /\ guard' = {p} /\ regs' = regs
                           /\ pc'[p] = [pc[p] EXCEPT !.phase = "reading"]
                      [] pc[p].phase = "reading" ->
                           /\ guard = {p} /\ guard' = {} /\ regs' = regs
                           /\ pc'[p] = [pc[p] EXCEPT !.phase = "write",
                                                     !.existing_data = regs[CurReg(p)]]
                      [] pc[p].phase = "write" ->
                           /\ guard = {} /\ guard' = {p} /\ regs' = regs
                           /\ pc'[p] = [pc[p] EXCEPT !.phase = "writing"]
                      [] pc[p].phase = "writing" ->
                           /\ guard = {p} /\ guard' = {}
                           /\ \A r \in Register \ {CurReg(p)} : regs'[r] = regs[r]
                           /\ \/ pc'[p].phase = "done" /\ pc'[p].i = pc[p].i
                              \/ pc'[p].phase = "read" /\ pc'[p].i = pc[p].i + 1]_vars

\* The context of one pin is between the read and the write of a register
\* while the other context, holding the guard, reads the same register.
C19_Witness ==
    \E p \in pins, q \in pins :
        /\ p # q
        /\ pc[p].phase = "write"
        /\ pc[q].phase = "reading"
        /\ CurReg(p) = CurReg(q)
        /\ guard = {q}

(***************************************************************************)
(* C20: when a transition fails at its k-th bit-write, k > 1, the k - 1    *)
(* bit-writes before it stay applied on the device (nothing interleaved:   *)
(* Spec) while the handle given back has the shape it had at the call.  A  *)
(* Pin::into_output that fails at its open-drain write leaves the          *)
(* direction bit at output and the handle Unconfigured.                    *)
(***************************************************************************)
C20_FailedTransitionKeepsEarlierWrites ==
    \A p \in pins :
        (ReturnedErr(p) /\ LastMethod(p).kind = "transition" /\ pc[p].i > 1) =>
            /\ \A j \in 1 .. pc[p].i - 1 :
                  LET op == LastMethod(p).body[j]
                  IN PinBit(op.bar, p) <=> op.f = "set_bit"
            /\ handle[p] = pc[p].self
            /\ pc[p].m = "Pin::into_output" =>
                  /\ PinBit("Dir", p)
                  /\ handle[p] = Unconfigured

\* Pin 0, RegDirA 0101_1010 before: Pin::into_output failed at its second
\* bit-write; RegDirA is 0101_1011 and the handle is a Pin.
C20_Witness ==
    /\ 0 \in pins
    /\ ReturnedErr(0)
    /\ pc[0].m = "Pin::into_output"
    /\ pc[0].i = 2
    /\ regs["RegDirA"] = 91
    /\ handle[0] = Unconfigured

(***************************************************************************)
(* C21: no register read or write leaves the guard held.  The step that    *)
(* ends a bus transaction, with success or with a bus error, frees the     *)
(* guard; a context holds the guard only while its transaction is under    *)
(* way; and when a read or write returns BusBusy, the guard is held by     *)
(* another context whose transaction is under way.                         *)
(***************************************************************************)
C21_GuardFreeAfterEveryOperation ==
    [][\A p \in pins :
          /\ (pc[p].phase \in {"reading", "writing"} /\ pc'[p] # pc[p]) => guard' = {}
          /\ p \in guard' => pc'[p].phase \in {"reading", "writing"}
          /\ (ret[p].tag # "Err" /\ ret'[p].tag = "Err" /\ ret'[p].error = <<"BusBusy">>) =>
                \E q \in pins \ {p} :
                    /\ q \in guard
                    /\ pc[q].phase \in {"reading", "writing"}]_vars

\* A transaction of one context failed on the bus and the method returned
\* Io; the other context has taken the guard since and is in a transaction.
C21_Witness ==
    \E p \in pins, q \in pins :
        /\ p # q
        /\ ReturnedErr(p)
        /\ ret[p].error = <<"Io", "nack">>
        /\ pc[q].phase = "reading"
        /\ guard = {q}

\* The physical registers the bit-level operations of method m address on
\* pin p.
RegistersOf(m, p) == {BankReg(m.body[k].bar, p) : k \in 1 .. Len(m.body)}

(***************************************************************************)
(* C22: when two contexts have each made one call, the two methods address *)
(* no physical register in common (pins of different banks, or different   *)
(* logical registers) and both have returned Ok, then every bit either     *)
(* wrote is in the registers, however their reads and writes interleaved.  *)
(***************************************************************************)
C22_NoLostUpdateAcrossRegisters ==
    \A p \in pins, q \in pins :
        (/\ p # q
         /\ calls[p] = 1 /\ calls[q] = 1
         /\ ReturnedOk(p) /\ ReturnedOk(q)
         /\ RegistersOf(LastMethod(p), p) \cap RegistersOf(LastMethod(q), q) = {}) =>
            ~LostUpdate(p) /\ ~LostUpdate(q)

\* Pins 3 and 9, of different banks: pullup and Pin::into_input both wrote
\* the pull-up register of their bank and returned Ok; pin 3's pull-up bit
\* is 1 and pin 9's is 0.
C22_Witness ==
    /\ pins = {3, 9}
    /\ ReturnedOk(3) /\ ReturnedOk(9)
    /\ pc[3].m = "Input<Floating>::pullup"
    /\ pc[9].m = "Pin::into_input"
    /\ PinBit("PullUp", 3)
    /\ ~PinBit("PullUp", 9)

(***************************************************************************)
(* C23: no step of a transition on pin p, whether the transition returns   *)
(* Ok or Err, changes a bit other than bit (p mod 8) of the registers of   *)
(* p's bank that the body of the transition names; the bits of the other   *)
(* pins, the registers the body does not name (the Data register among     *)
(* them) and the registers of the other bank stay as they were (nothing    *)
(* is interleaved: Spec).                                                  *)
(***************************************************************************)
C23_TransitionChangesOnlyItsBits ==
    [][\A p \in pins :
          (pc[p].phase # "idle" /\ LastMethod(p).kind = "transition") =>
              /\ regs'["RegDataA"] = regs["RegDataA"]
              /\ regs'["RegDataB"] = regs["RegDataB"]
              /\ \A r \in Register :
                    regs'[r] # regs[r] =>
                        /\ \E k \in 1 .. Len(LastMethod(p).body) :
                              r = BankReg(LastMethod(p).body[k].bar, p)
                        /\ \A b \in (0 .. 7) \ {p % 8} :
                              BitAt(regs'[r], b) = BitAt(regs[r], b)]_vars

\* Pin 12, the direction, data and open-drain registers 1010_0101 at
\* first: after Pin::into_input and Input::into_output RegDirB is
\* 1011_0101, and RegDirA, RegDataB and RegOpenDrainB are as they were.
C23_Witness ==
    /\ 12 \in pins
    /\ ReturnedOk(12)
    /\ pc[12].m = "Input::into_output"
    /\ regs["RegDirB"] = 181
    /\ regs["RegDirA"] = 165
    /\ regs["RegDataB"] = 165
    /\ regs["RegOpenDrainB"] = 165

====
